---- MODULE Spec2Model ----
(***************************************************************************)
(* The unbalanced binary search tree of Source.cpp (struct Node, class     *)
(* BST) and the menu loop of main that drives it.  The node graph is kept  *)
(* as a heap: heap[a] is the Node object at address a, addresses are       *)
(* handed out by `new` in allocation order, NULL is nullptr.               *)
(***************************************************************************)
EXTENDS Integers, Sequences, FiniteSets, TLC

\* ------------------------------------------------------------------ bounds
\* Largest value typed at the "Enter value" prompts.
MaxVal == 2
\* Number of Node objects `new` may hand out in one run of the program.
MaxNodes == 4
\* Number of Node objects in the runs that use the whole menu or change
\* the verbose flag.
MenuNodes == 3
\* A result of rand() that exceeds the first stage's modulus.
BigRand == 1001

\* ------------------------------------------------------- program constants
NULL == 0
Sentinel == -1

\* The integers the user may enter; the sentinel's value is among them.
Values == Sentinel .. MaxVal

\* Node(int value) : data(value), left(nullptr), right(nullptr)
Node(value) == [data |-> value, left |-> NULL, right |-> NULL]

VARIABLES
    heap,      \* Seq of Node: every object `new Node` has returned so far
    root,      \* BST::root
    verbose,   \* BST::verbose
    freed,     \* addresses on which `delete` has been executed
    pc,        \* "menu" while main's loop runs, "done" after return 0
    out,       \* lines written to std::cout by the last call
    ret,       \* value the last call returned (NULL for a void call)
    log,       \* memory events of the destructor, in execution order
    op,        \* the last call made by main's switch
    arg,       \* its argument (NULL when it has none)
    prev,      \* heap and root just before the last call
    op2,       \* the call made before the last one
    arg2,      \* its argument
    prev2,     \* in-order traversal just before the call op2
    present,   \* the values that were added and not removed since
    choice,    \* the number last read by main's std::cin >> choice
    stage,     \* testPerformanceHelper calls completed by the running testPerformance
    perf,      \* what each of those calls did, for the properties
    twin       \* a second BST given the same calls under the other verbose flag

vars == <<heap, root, verbose, freed, pc, out, ret, log,
          op, arg, prev, op2, arg2, prev2, present, choice, stage, perf, twin>>

\* ----------------------------------------------------- reading the graph
\* Addresses reachable from the set S by following left and right links.
RECURSIVE ReachFrom(_, _)
ReachFrom(h, S) ==
    LET next == (S \cup {h[a].left : a \in S} \cup {h[a].right : a \in S})
                    \ {NULL}
    IN IF next = S THEN S ELSE ReachFrom(h, next)

Reach(h, node) == ReachFrom(h, {node} \ {NULL})

\* In-order traversal (left, node, right) of the subtree at node.
RECURSIVE Inorder(_, _)
Inorder(h, node) ==
    IF node = NULL THEN <<>>
    ELSE Inorder(h, h[node].left) \o <<h[node].data>> \o Inorder(h, h[node].right)

\* The set of values held by the nodes of the subtree at node.
ValuesOf(h, node) == {h[a].data : a \in Reach(h, node)}

StrictlyIncreasing(s) == \A i \in 1 .. Len(s) - 1 : s[i] < s[i + 1]

SetMax(S) == CHOOSE x \in S : \A y \in S : y <= x
SetMin(S) == CHOOSE x \in S : \A y \in S : x <= y

\* ---------------------------------------------------------- BST::insert
Line(text, n) == [text |-> text, n |-> n]
Say(vb, text, n) == IF vb THEN <<Line(text, n)>> ELSE <<>>

\* insert without the `else if (data > node->data)` test: an equal value
\* is sent to the right subtree.
RECURSIVE insert_dup(_, _, _, _)
insert_dup(h, vb, node, data) ==
    IF node = NULL
    THEN [h |-> Append(h, Node(data)), node |-> Len(h) + 1,
          out |-> Say(vb, "Insert here", data)]
    ELSE IF data < h[node].data
    THEN LET r == insert_dup(h, vb, h[node].left, data)
         IN [h |-> [r.h EXCEPT ![node].left = r.node], node |-> node,
             out |-> Say(vb, "Go left from", h[node].data) \o r.out]
    ELSE LET r == insert_dup(h, vb, h[node].right, data)
         IN [h |-> [r.h EXCEPT ![node].right = r.node], node |-> node,
             out |-> Say(vb, "Go right from", h[node].data) \o r.out]

\* insert whose recursive calls sit inside the `if (verbose)` blocks.
RECURSIVE insert_gated(_, _, _, _)
insert_gated(h, vb, node, data) ==
    IF node = NULL
    THEN [h |-> Append(h, Node(data)), node |-> Len(h) + 1,
          out |-> Say(vb, "Insert here", data)]
    ELSE IF data < h[node].data /\ vb
    THEN LET r == insert_gated(h, vb, h[node].left, data)
         IN [h |-> [r.h EXCEPT ![node].left = r.node], node |-> node,
             out |-> Say(vb, "Go left from", h[node].data) \o r.out]
    ELSE IF data > h[node].data /\ vb
    THEN LET r == insert_gated(h, vb, h[node].right, data)
         IN [h |-> [r.h EXCEPT ![node].right = r.node], node |-> node,
             out |-> Say(vb, "Go right from", h[node].data) \o r.out]
    ELSE [h |-> h, node |-> node, out |-> <<>>]

\* insert with the two comparisons exchanged: a smaller value goes right,
\* a greater one left.
RECURSIVE insert_mirror(_, _, _, _)
insert_mirror(h, vb, node, data) ==
    IF node = NULL
    THEN [h |-> Append(h, Node(data)), node |-> Len(h) + 1,
          out |-> Say(vb, "Insert here", data)]
    ELSE IF data > h[node].data
    THEN LET r == insert_mirror(h, vb, h[node].left, data)
         IN [h |-> [r.h EXCEPT ![node].left = r.node], node |-> node,
             out |-> Say(vb, "Go left from", h[node].data) \o r.out]
    ELSE IF data < h[node].data
    THEN LET r == insert_mirror(h, vb, h[node].right, data)
         IN [h |-> [r.h EXCEPT ![node].right = r.node], node |-> node,
             out |-> Say(vb, "Go right from", h[node].data) \o r.out]
    ELSE [h |-> h, node |-> node, out |-> <<>>]

\* insert that rebalances: a node without a left child whose right child
\* has got a right child is rotated to the left.
RECURSIVE insert_rotate(_, _, _, _)
insert_rotate(h, vb, node, data) ==
    IF node = NULL
    THEN [h |-> Append(h, Node(data)), node |-> Len(h) + 1,
          out |-> Say(vb, "Insert here", data)]
    ELSE IF data < h[node].data
    THEN LET r == insert_rotate(h, vb, h[node].left, data)
         IN [h |-> [r.h EXCEPT ![node].left = r.node], node |-> node,
             out |-> Say(vb, "Go left from", h[node].data) \o r.out]
    ELSE IF data > h[node].data
    THEN LET r == insert_rotate(h, vb, h[node].right, data)
             h2 == [r.h EXCEPT ![node].right = r.node]
             c == r.node
             o == Say(vb, "Go right from", h[node].data) \o r.out
         IN IF h2[node].left = NULL /\ h2[c].right # NULL
            THEN [h |-> [h2 EXCEPT ![node].right = h2[c].left, ![c].left = node],
                  node |-> c, out |-> o]
            ELSE [h |-> h2, node |-> node, out |-> o]
    ELSE [h |-> h, node |-> node, out |-> <<>>]

\* Node* insert(Node* node, int data): the heap afterwards, the pointer
\* returned and the lines printed.
RECURSIVE insert(_, _, _, _)
insert(h, vb, node, data) ==
    IF node = NULL
    THEN [h |-> Append(h, Node(data)), node |-> Len(h) + 1,
          out |-> Say(vb, "Insert here", data)]
    ELSE IF data < h[node].data
    THEN LET r == insert(h, vb, h[node].left, data)
         IN [h |-> [r.h EXCEPT ![node].left = r.node], node |-> node,
             out |-> Say(vb, "Go left from", h[node].data) \o r.out]
    ELSE IF data > h[node].data
    THEN LET r == insert(h, vb, h[node].right, data)
         IN [h |-> [r.h EXCEPT ![node].right = r.node], node |-> node,
             out |-> Say(vb, "Go right from", h[node].data) \o r.out]
    ELSE [h |-> h, node |-> node, out |-> <<>>]

\* ---------------------------------------------------------- BST::findMin
\* findMin without its loop: the subtree's top node is taken as minimum.
findMin_top(h, node) == node

\* while (node && node->left) node = node->left; return node;
RECURSIVE findMin(_, _)
findMin(h, node) ==
    IF node # NULL /\ h[node].left # NULL
    THEN findMin(h, h[node].left)
    ELSE node

\* ---------------------------------------------------------- BST::findMax
\* while (node->right != nullptr) node = node->right; return node->data;
RECURSIVE findMaxLoop(_, _)
findMaxLoop(h, node) ==
    IF h[node].right # NULL THEN findMaxLoop(h, h[node].right) ELSE h[node].data

\* findMax that never descends: the root's value is returned.
findMax_root(h, node) == IF node = NULL THEN Sentinel ELSE h[node].data

findMax(h, node) == IF node = NULL THEN Sentinel ELSE findMaxLoop(h, node)

\* ---------------------------------------------------------- BST::remove
\* remove whose one-child test returns the wrong field: a matched node
\* without a left child is replaced by its (absent) left child.
RECURSIVE remove_dropRight(_, _, _)
remove_dropRight(h, node, data) ==
    IF node = NULL THEN [h |-> h, node |-> NULL]
    ELSE IF data < h[node].data
    THEN LET r == remove_dropRight(h, h[node].left, data)
         IN [h |-> [r.h EXCEPT ![node].left = r.node], node |-> node]
    ELSE IF data > h[node].data
    THEN LET r == remove_dropRight(h, h[node].right, data)
         IN [h |-> [r.h EXCEPT ![node].right = r.node], node |-> node]
    ELSE IF h[node].left = NULL THEN [h |-> h, node |-> h[node].left]
    ELSE IF h[node].right = NULL THEN [h |-> h, node |-> h[node].left]
    ELSE LET temp == findMin(h, h[node].right)
             h1 == [h EXCEPT ![node].data = h[temp].data]
             r == remove_dropRight(h1, h1[node].right, h1[temp].data)
         IN [h |-> [r.h EXCEPT ![node].right = r.node], node |-> node]

\* remove that copies the successor's value but never removes the
\* successor from the right subtree.
RECURSIVE remove_keepSucc(_, _, _)
remove_keepSucc(h, node, data) ==
    IF node = NULL THEN [h |-> h, node |-> NULL]
    ELSE IF data < h[node].data
    THEN LET r == remove_keepSucc(h, h[node].left, data)
         IN [h |-> [r.h EXCEPT ![node].left = r.node], node |-> node]
    ELSE IF data > h[node].data
    THEN LET r == remove_keepSucc(h, h[node].right, data)
         IN [h |-> [r.h EXCEPT ![node].right = r.node], node |-> node]
    ELSE IF h[node].left = NULL THEN [h |-> h, node |-> h[node].right]
    ELSE IF h[node].right = NULL THEN [h |-> h, node |-> h[node].left]
    ELSE LET temp == findMin(h, h[node].right)
         IN [h |-> [h EXCEPT ![node].data = h[temp].data], node |-> node]

\* remove that descends the wrong way: left for a greater value, right
\* for a smaller one.
RECURSIVE remove_swapped(_, _, _)
remove_swapped(h, node, data) ==
    IF node = NULL THEN [h |-> h, node |-> NULL]
    ELSE IF data > h[node].data
    THEN LET r == remove_swapped(h, h[node].left, data)
         IN [h |-> [r.h EXCEPT ![node].left = r.node], node |-> node]
    ELSE IF data < h[node].data
    THEN LET r == remove_swapped(h, h[node].right, data)
         IN [h |-> [r.h EXCEPT ![node].right = r.node], node |-> node]
    ELSE IF h[node].left = NULL THEN [h |-> h, node |-> h[node].right]
    ELSE IF h[node].right = NULL THEN [h |-> h, node |-> h[node].left]
    ELSE LET temp == findMin(h, h[node].right)
             h1 == [h EXCEPT ![node].data = h[temp].data]
             r == remove_swapped(h1, h1[node].right, h1[temp].data)
         IN [h |-> [r.h EXCEPT ![node].right = r.node], node |-> node]

\* remove that promotes the successor node itself in the two-child case,
\* handing it the matched node's children without unlinking it first.
RECURSIVE remove_relink(_, _, _)
remove_relink(h, node, data) ==
    IF node = NULL THEN [h |-> h, node |-> NULL]
    ELSE IF data < h[node].data
    THEN LET r == remove_relink(h, h[node].left, data)
         IN [h |-> [r.h EXCEPT ![node].left = r.node], node |-> node]
    ELSE IF data > h[node].data
    THEN LET r == remove_relink(h, h[node].right, data)
         IN [h |-> [r.h EXCEPT ![node].right = r.node], node |-> node]
    ELSE IF h[node].left = NULL THEN [h |-> h, node |-> h[node].right]
    ELSE IF h[node].right = NULL THEN [h |-> h, node |-> h[node].left]
    ELSE LET temp == findMin(h, h[node].right)
         IN [h |-> [h EXCEPT ![temp].left = h[node].left,
                             ![temp].right = h[node].right],
             node |-> temp]

\* Node* remove(Node* node, int data): the heap afterwards and the pointer
\* returned.  No path of it executes `delete`.
RECURSIVE remove(_, _, _)
remove(h, node, data) ==
    IF node = NULL THEN [h |-> h, node |-> NULL]
    ELSE IF data < h[node].data
    THEN LET r == remove(h, h[node].left, data)
         IN [h |-> [r.h EXCEPT ![node].left = r.node], node |-> node]
    ELSE IF data > h[node].data
    THEN LET r == remove(h, h[node].right, data)
         IN [h |-> [r.h EXCEPT ![node].right = r.node], node |-> node]
    ELSE IF h[node].left = NULL THEN [h |-> h, node |-> h[node].right]
    ELSE IF h[node].right = NULL THEN [h |-> h, node |-> h[node].left]
    ELSE LET temp == findMin(h, h[node].right)
             h1 == [h EXCEPT ![node].data = h[temp].data]
             r == remove(h1, h1[node].right, h1[temp].data)
         IN [h |-> [r.h EXCEPT ![node].right = r.node], node |-> node]

\* ------------------------------------------------------ BST::destroyTree
Event(kind, a) == [kind |-> kind, addr |-> a]

\* destroyTree that deletes the node before it visits the children.
RECURSIVE destroyTree_preorder(_, _)
destroyTree_preorder(h, node) ==
    IF node # NULL
    THEN <<Event("delete", node)>>
         \o <<Event("read", node)>> \o destroyTree_preorder(h, h[node].left)
         \o <<Event("read", node)>> \o destroyTree_preorder(h, h[node].right)
    ELSE <<>>

\* void destroyTree(Node* node): the reads of node's fields and the
\* deletes it performs, in order.
RECURSIVE destroyTree(_, _)
destroyTree(h, node) ==
    IF node # NULL
    THEN <<Event("read", node)>> \o destroyTree(h, h[node].left)
         \o <<Event("read", node)>> \o destroyTree(h, h[node].right)
         \o <<Event("delete", node)>>
    ELSE <<>>

Deleted(events) ==
    {events[i].addr : i \in {j \in 1 .. Len(events) : events[j].kind = "delete"}}

\* ------------------------------------------------------------------ state
Init ==
    /\ heap = <<>>
    /\ root = NULL
    /\ verbose = TRUE
    /\ freed = {}
    /\ pc = "menu"
    /\ out = <<>>
    /\ ret = NULL
    /\ log = <<>>
    /\ op = "none"
    /\ arg = NULL
    /\ prev = [heap |-> <<>>, root |-> NULL, verbose |-> TRUE]
    /\ op2 = "none"
    /\ arg2 = NULL
    /\ prev2 = <<>>
    /\ present = {}
    /\ choice = 0
    /\ stage = 0
    /\ perf = <<>>
    /\ twin = [heap |-> <<>>, root |-> NULL, verbose |-> TRUE, ret |-> NULL]

\* What every call leaves behind for the properties: the call, its
\* argument and the tree it started from.
Called(o, a) ==
    /\ op' = o
    /\ arg' = a
    /\ prev' = [heap |-> heap, root |-> root, verbose |-> verbose]
    /\ op2' = op
    /\ arg2' = arg
    /\ prev2' = Inorder(prev.heap, prev.root)
    /\ perf' = <<>>

\* case 1: tree.add(value), i.e. root = insert(root, data)
Add(value) ==
    /\ pc = "menu"
    /\ LET r == insert(heap, verbose, root, value)
       IN /\ Len(r.h) <= MaxNodes
          /\ heap' = r.h
          /\ root' = r.node
          /\ out' = r.out
    /\ LET t == insert(twin.heap, twin.verbose, twin.root, value)
       IN twin' = [twin EXCEPT !.heap = t.h, !.root = t.node, !.ret = NULL]
    /\ present' = present \cup {value}
    /\ ret' = NULL
    /\ Called("add", value)
    /\ UNCHANGED <<verbose, freed, pc, log, stage>>

\* case 2: tree.remove(value), i.e. root = remove(root, data)
Remove(value) ==
    /\ pc = "menu"
    /\ LET r == remove(heap, root, value)
       IN /\ heap' = r.h
          /\ root' = r.node
    /\ out' = <<>>
    /\ LET t == remove(twin.heap, twin.root, value)
       IN twin' = [twin EXCEPT !.heap = t.h, !.root = t.node, !.ret = NULL]
    /\ present' = present \ {value}
    /\ ret' = NULL
    /\ Called("remove", value)
    /\ UNCHANGED <<verbose, freed, pc, log, stage>>

\* case 4: tree.findMaximum(), i.e. return findMax(root)
FindMaximum ==
    /\ pc = "menu"
    /\ ret' = findMax(heap, root)
    /\ out' = <<Line("Maximum value in BST:", ret')>>
    /\ twin' = [twin EXCEPT !.ret = findMax(twin.heap, twin.root)]
    /\ Called("findMaximum", NULL)
    /\ UNCHANGED <<heap, root, verbose, freed, pc, log, present, stage>>

\* case 6: return 0 leaves main's scope, which runs ~BST()
Exit ==
    /\ pc = "menu"
    /\ pc' = "done"
    /\ log' = destroyTree(heap, root)
    /\ freed' = freed \cup Deleted(log')
    /\ out' = <<Line("Exiting program.", 0)>>
    /\ ret' = 0
    /\ twin' = [twin EXCEPT !.ret = 0]
    /\ Called("exit", NULL)
    /\ UNCHANGED <<heap, root, verbose, present, stage>>

\* -------------------------------------------------------- BST::printTree
Printed(w, n) == [text |-> "setw", n |-> n, w |-> w]

\* printTree that visits the left child first.
RECURSIVE printTree_leftFirst(_, _, _)
printTree_leftFirst(h, node, space) ==
    IF node = NULL THEN <<>>
    ELSE printTree_leftFirst(h, h[node].left, space + 5)
         \o <<Printed(space + 5, h[node].data)>>
         \o printTree_leftFirst(h, h[node].right, space + 5)

\* void printTree(Node* node, int space = 0): the lines written, each a
\* value under std::setw(space).
RECURSIVE printTree(_, _, _)
printTree(h, node, space) ==
    IF node = NULL THEN <<>>
    ELSE printTree(h, h[node].right, space + 5)
         \o <<Printed(space + 5, h[node].data)>>
         \o printTree(h, h[node].left, space + 5)

\* case 3: tree.display()
Display ==
    /\ pc = "menu"
    /\ out' = <<Line("BST Structure:", 0)>> \o printTree(heap, root, 0)
    /\ ret' = NULL
    /\ twin' = [twin EXCEPT !.ret = NULL]
    /\ Called("display", NULL)
    /\ UNCHANGED <<heap, root, verbose, freed, pc, log, present, stage>>

\* The default case ending the loop the way case 6 does.
InvalidChoice_exit ==
    /\ pc = "menu"
    /\ pc' = "done"
    /\ out' = <<Line("Invalid choice. Please try again.", 0)>>
    /\ ret' = 0
    /\ twin' = [twin EXCEPT !.ret = 0]
    /\ Called("invalid", NULL)
    /\ UNCHANGED <<heap, root, verbose, freed, log, present, stage>>

\* default: any number other than 1..6
InvalidChoice ==
    /\ pc = "menu"
    /\ out' = <<Line("Invalid choice. Please try again.", 0)>>
    /\ ret' = NULL
    /\ twin' = [twin EXCEPT !.ret = NULL]
    /\ Called("invalid", NULL)
    /\ UNCHANGED <<heap, root, verbose, freed, pc, log, present, stage>>

\* ------------------------------------------------- BST::testPerformance
\* testPerformanceHelper(100); ...(1000); ...(10000); ...(100000);
Stages == <<100, 1000, 10000, 100000>>

\* The results of rand() the model draws from.
RandOutputs == {MaxVal, BigRand}

\* rand() without the modulus.
Draw_raw(r, numElements) == r

\* rand() % (numElements * 10)
Draw(r, numElements) == r % (numElements * 10)

\* The loop bound taken inclusive: i <= numElements.
Iterations_inclusive(numElements) ==
    IF numElements >= 0 THEN numElements + 1 ELSE 0

\* for (int i = 0; i < numElements; i++): the number of passes.
Iterations(numElements) == IF numElements > 0 THEN numElements ELSE 0

\* k successive calls add(v).  A call that changes neither heap nor root
\* leaves the next identical call the same tree to work on, so the
\* remaining calls are not evaluated one by one.
RECURSIVE RepeatAdd(_, _, _, _, _)
RepeatAdd(h, vb, rt, v, k) ==
    IF k <= 0 THEN [h |-> h, node |-> rt, out |-> <<>>]
    ELSE LET r == insert(h, vb, rt, v)
         IN IF r.h = h /\ r.node = rt
            THEN r
            ELSE LET q == RepeatAdd(r.h, vb, r.node, v, k - 1)
                 IN [h |-> q.h, node |-> q.node, out |-> r.out \o q.out]

\* void testPerformanceHelper(int numElements) when rand() returns first
\* and then rest: the tree afterwards, the lines printed, the number of
\* add calls and the values they were given.
testPerformanceHelper(h, vb, rt, numElements, first, rest) ==
    LET n == Iterations(numElements)
        a == RepeatAdd(h, vb, rt, Draw(first, numElements), IF n > 0 THEN 1 ELSE 0)
        b == RepeatAdd(a.h, vb, a.node, Draw(rest, numElements), n - 1)
    IN [h |-> b.h, node |-> b.node,
        out |-> a.out \o b.out \o <<Line("Added elements in ms", numElements)>>,
        calls |-> n,
        draws |-> (IF n > 0 THEN {Draw(first, numElements)} ELSE {})
                  \cup (IF n > 1 THEN {Draw(rest, numElements)} ELSE {})]

\* case 5: tree.testPerformance(), up to verbose = false
TestPerformance ==
    /\ pc = "menu"
    /\ pc' = "perf"
    /\ verbose' = FALSE
    /\ twin' = [twin EXCEPT !.verbose = FALSE, !.ret = NULL]
    /\ stage' = 0
    /\ out' = <<>>
    /\ ret' = NULL
    /\ Called("testPerformance", NULL)
    /\ UNCHANGED <<heap, root, freed, log, present>>

\* the next testPerformanceHelper call of the running testPerformance
PerfStage(first, rest) ==
    /\ pc = "perf"
    /\ stage < Len(Stages)
    /\ LET numElements == Stages[stage + 1]
           r == testPerformanceHelper(heap, verbose, root, numElements, first, rest)
           t == testPerformanceHelper(twin.heap, twin.verbose, twin.root,
                                      numElements, first, rest)
       IN /\ Len(r.h) <= MaxNodes
          /\ heap' = r.h
          /\ root' = r.node
          /\ out' = out \o r.out
          /\ twin' = [twin EXCEPT !.heap = t.h, !.root = t.node]
          /\ present' = present \cup r.draws
          /\ perf' = [i \in 1 .. Len(perf) |-> [perf[i] EXCEPT !.draws = {}]]
                     \o <<[count |-> numElements, calls |-> r.calls,
                           verbose |-> verbose, draws |-> r.draws]>>
    /\ stage' = stage + 1
    /\ UNCHANGED <<verbose, freed, pc, ret, log, op, arg, prev, op2, arg2, prev2>>

\* verbose = true; and the return to main's loop
PerfReturn ==
    /\ pc = "perf"
    /\ stage = Len(Stages)
    /\ verbose' = TRUE
    /\ twin' = [twin EXCEPT !.verbose = TRUE]
    /\ pc' = "menu"
    /\ perf' = [i \in 1 .. Len(perf) |-> [perf[i] EXCEPT !.draws = {}]]
    /\ UNCHANGED <<heap, root, freed, out, ret, log, op, arg, prev, op2, arg2,
                   prev2, present, stage>>

\* ------------------------------------------------------------------ main
\* std::cin >> choice
Read(c) == pc = "menu" /\ choice' = c

\* The numbers typed at the menu that no case of the switch names.
OtherChoices == {0, 7}

\* The calls that build, query and tear down the tree: cases 1, 2, 4, 6.
Next ==
    \/ Read(1) /\ \E value \in Values : Add(value)
    \/ Read(2) /\ \E value \in Values : Remove(value)
    \/ Read(4) /\ FindMaximum
    \/ Read(6) /\ Exit

Spec == Init /\ [][Next]_vars

Fits == Len(heap') <= MenuNodes

\* while (true) { std::cin >> choice; switch (choice) ... }
MenuNext ==
    \/ Read(1) /\ (\E value \in Values : Add(value)) /\ Fits
    \/ Read(2) /\ \E value \in Values : Remove(value)
    \/ Read(3) /\ Display
    \/ Read(4) /\ FindMaximum
    \/ Read(5) /\ TestPerformance
    \/ (\E first, rest \in RandOutputs : PerfStage(first, rest))
          /\ Fits /\ UNCHANGED choice
    \/ PerfReturn /\ UNCHANGED choice
    \/ Read(6) /\ Exit
    \/ \E c \in OtherChoices : Read(c) /\ InvalidChoice

MenuSpec == Init /\ [][MenuNext]_vars

\* A client of class BST assigning the public member verbose; the second
\* BST is given the other value.
SetVerbose(b) ==
    /\ pc = "menu"
    /\ verbose' = b
    /\ twin' = [twin EXCEPT !.verbose = ~b, !.ret = NULL]
    /\ out' = <<>>
    /\ ret' = NULL
    /\ Called("setVerbose", NULL)
    /\ UNCHANGED <<heap, root, freed, pc, log, present, choice, stage>>

\* Any client of the class: the public members in any order.
ApiNext ==
    \/ (\E value \in Values : Add(value)) /\ Fits /\ UNCHANGED choice
    \/ (\E value \in Values : Remove(value)) /\ UNCHANGED choice
    \/ FindMaximum /\ UNCHANGED choice
    \/ TestPerformance /\ UNCHANGED choice
    \/ (\E first, rest \in RandOutputs : PerfStage(first, rest))
          /\ Fits /\ UNCHANGED choice
    \/ PerfReturn /\ UNCHANGED choice
    \/ (\E b \in BOOLEAN : SetVerbose(b))

ApiSpec == Init /\ [][ApiNext]_vars

\* ------------------------------------------------- what each call touches
\* One step of a call: the node whose fields it reads (NULL at a null
\* test, which reads none) and the branch it takes there.
Step(at, kind) == [at |-> at, kind |-> kind]

\* The steps of insert(node, data).
RECURSIVE insertTrace(_, _, _)
insertTrace(h, node, data) ==
    IF node = NULL THEN <<Step(NULL, "new")>>
    ELSE IF data < h[node].data
    THEN <<Step(node, "left")>> \o insertTrace(h, h[node].left, data)
    ELSE IF data > h[node].data
    THEN <<Step(node, "right")>> \o insertTrace(h, h[node].right, data)
    ELSE <<Step(node, "equal")>>

\* The steps of findMin(node).
RECURSIVE findMinTrace(_, _)
findMinTrace(h, node) ==
    IF node = NULL THEN <<>>
    ELSE IF h[node].left # NULL
    THEN <<Step(node, "minLeft")>> \o findMinTrace(h, h[node].left)
    ELSE <<Step(node, "min")>>

\* The steps of remove(node, data); temp->data is read at "successor".
RECURSIVE removeTrace(_, _, _)
removeTrace(h, node, data) ==
    IF node = NULL THEN <<Step(NULL, "absent")>>
    ELSE IF data < h[node].data
    THEN <<Step(node, "left")>> \o removeTrace(h, h[node].left, data)
    ELSE IF data > h[node].data
    THEN <<Step(node, "right")>> \o removeTrace(h, h[node].right, data)
    ELSE IF h[node].left = NULL THEN <<Step(node, "noLeft")>>
    ELSE IF h[node].right = NULL THEN <<Step(node, "noRight")>>
    ELSE LET temp == findMin(h, h[node].right)
         IN <<Step(node, "twoChild")>> \o findMinTrace(h, h[node].right)
            \o <<Step(temp, "successor")>>
            \o (IF temp = NULL THEN <<>>
                ELSE LET h1 == [h EXCEPT ![node].data = h[temp].data]
                     IN removeTrace(h1, h1[node].right, h1[temp].data))

\* The steps of the loop of findMax: node->right is read at every step.
RECURSIVE findMaxLoopTrace(_, _)
findMaxLoopTrace(h, node) ==
    IF node = NULL THEN <<Step(NULL, "maxRight")>>
    ELSE IF h[node].right # NULL
    THEN <<Step(node, "maxRight")>> \o findMaxLoopTrace(h, h[node].right)
    ELSE <<Step(node, "max")>>

\* findMax without its test for the empty tree.
findMaxTrace_unchecked(h, node) == findMaxLoopTrace(h, node)

\* The steps of findMax(node).
findMaxTrace(h, node) ==
    IF node = NULL THEN <<Step(NULL, "empty")>> ELSE findMaxLoopTrace(h, node)

\* The steps of printTree(node).
RECURSIVE printTrace(_, _)
printTrace(h, node) ==
    IF node = NULL THEN <<>>
    ELSE printTrace(h, h[node].right) \o <<Step(node, "print")>>
         \o printTrace(h, h[node].left)

\* The steps of the last call, made on the tree it started from.
CallTrace ==
    CASE op = "add" -> insertTrace(prev.heap, prev.root, arg)
      [] op = "remove" -> removeTrace(prev.heap, prev.root, arg)
      [] op = "findMaximum" -> findMaxTrace(prev.heap, prev.root)
      [] op = "display" -> printTrace(prev.heap, prev.root)
      [] OTHER -> <<>>

\* ------------------------------------------------------------- properties
Tree == Reach(heap, root)
TreeValues == ValuesOf(heap, root)
OldTree == Reach(prev.heap, prev.root)
OldValues == ValuesOf(prev.heap, prev.root)
Range(s) == {s[i] : i \in 1 .. Len(s)}
Children(h, a) == Reach(h, h[a].left) \cup Reach(h, h[a].right)
HasTwoChildren(h, a) == h[a].left # NULL /\ h[a].right # NULL

\* The reachable node of heap h that holds value v, NULL when none does.
NodeOf(h, node, v) ==
    IF \E a \in Reach(h, node) : h[a].data = v
    THEN CHOOSE a \in Reach(h, node) : h[a].data = v
    ELSE NULL

\* C1: after any sequence of add and remove calls every reachable node's
\* left subtree holds only smaller values and its right subtree only
\* greater ones; the in-order traversal is strictly increasing and no
\* value is held by two nodes.
C1_BSTOrdering ==
    /\ \A n \in Tree :
          /\ \A x \in ValuesOf(heap, heap[n].left) : x < heap[n].data
          /\ \A x \in ValuesOf(heap, heap[n].right) : x > heap[n].data
    /\ StrictlyIncreasing(Inorder(heap, root))
    /\ \A a, b \in Tree : a # b => heap[a].data # heap[b].data

C1_Witness ==
    /\ op = "remove"
    /\ arg \in OldValues
    /\ Cardinality(Tree) >= 3
    /\ \E n \in Tree : HasTwoChildren(heap, n)

\* C2: add(v) of an absent value creates exactly one node, which holds v,
\* and the set of values becomes old \cup {v}; add(v) of a present value
\* creates no node and leaves the set of values unchanged; no other call
\* creates a node.
C2_AddContract ==
    LET created == (1 .. Len(heap)) \ (1 .. Len(prev.heap))
    IN /\ (op = "add" /\ arg \notin OldValues) =>
              /\ Cardinality(created) = 1
              /\ \A a \in created : heap[a] = Node(arg)
              /\ Tree = OldTree \cup created
              /\ TreeValues = OldValues \cup {arg}
       /\ (op = "add" /\ arg \in OldValues) =>
              /\ created = {}
              /\ Tree = OldTree
              /\ TreeValues = OldValues
       /\ op # "add" => created = {}

C2_Witness ==
    /\ op = "add"
    /\ arg \notin OldValues
    /\ Cardinality(OldTree) >= 2

\* C3: after remove(v) the value v is absent and the set of values is
\* old \ {v}; when v was absent the tree keeps its shape and values.
C3_RemoveContract ==
    op = "remove" =>
        /\ arg \notin TreeValues
        /\ TreeValues = OldValues \ {arg}
        /\ TreeValues = present
        /\ arg \notin OldValues => (heap = prev.heap /\ root = prev.root)

C3_Witness ==
    /\ op = "remove"
    /\ arg \in OldValues
    /\ LET n == NodeOf(prev.heap, prev.root, arg)
       IN prev.heap[n].left = NULL /\ prev.heap[n].right # NULL

\* C4: findMaximum returns the greatest value present in a non-empty tree
\* and -1 on the empty tree.
C4_FindMaximum ==
    op = "findMaximum" =>
        /\ ret = (IF TreeValues = {} THEN -1 ELSE SetMax(TreeValues))
        /\ ret = (IF present = {} THEN -1 ELSE SetMax(present))

C4_Witness ==
    /\ op = "findMaximum"
    /\ op2 = "remove"
    /\ arg2 \in Range(prev2)
    /\ \A x \in Range(prev2) : x <= arg2
    /\ TreeValues # {}
    /\ ret # -1

\* C5: remove(v) of a node with two children leaves that node in place
\* holding the minimum of its former right subtree, which then occurs
\* once in the tree; its left subtree is untouched, the only node the
\* tree loses is the successor's, out of the right subtree, and the
\* in-order traversal stays strictly increasing without v.
C5_TwoChildRemove ==
    LET p == NodeOf(prev.heap, prev.root, arg)
    IN (op = "remove" /\ p # NULL /\ HasTwoChildren(prev.heap, p)) =>
          LET oldRight == Reach(prev.heap, prev.heap[p].right)
              oldLeft == Reach(prev.heap, prev.heap[p].left)
              succ == findMin(prev.heap, prev.heap[p].right)
          IN /\ root = prev.root
             /\ p \in Tree
             /\ heap[p].data = SetMin(ValuesOf(prev.heap, prev.heap[p].right))
             /\ Cardinality({a \in Tree : heap[a].data = heap[p].data}) = 1
             /\ heap[p].left = prev.heap[p].left
             /\ \A a \in oldLeft : heap[a] = prev.heap[a]
             /\ Reach(heap, heap[p].left) = oldLeft
             /\ succ \in oldRight
             /\ Reach(heap, heap[p].right) = oldRight \ {succ}
             /\ Tree = OldTree \ {succ}
             /\ \A a \in OldTree \ (oldRight \cup {p}) : heap[a] = prev.heap[a]
             /\ StrictlyIncreasing(Inorder(heap, root))
             /\ arg \notin Range(Inorder(heap, root))

C5_Witness ==
    LET p == NodeOf(prev.heap, prev.root, arg)
    IN /\ op = "remove"
       /\ p # NULL
       /\ HasTwoChildren(prev.heap, p)
       /\ findMin(prev.heap, prev.heap[p].right) # prev.heap[p].right

\* C6 as stated: for every value v, add(v) immediately followed by
\* remove(v) gives back the in-order traversal the tree had before add(v).
C6_RoundTripAnyValue ==
    (op = "remove" /\ op2 = "add" /\ arg2 = arg) =>
        Inorder(heap, root) = prev2

\* C6 amended: for every value v that the tree does not hold, add(v)
\* immediately followed by remove(v) gives back the in-order traversal
\* the tree had before add(v).
C6_RoundTripAbsentValue ==
    (op = "remove" /\ op2 = "add" /\ arg2 = arg /\ arg \notin Range(prev2)) =>
        Inorder(heap, root) = prev2

C6_Witness ==
    /\ op = "remove"
    /\ op2 = "add"
    /\ arg2 = arg
    /\ arg \notin Range(prev2)
    /\ Len(prev2) >= 2

\* C7: add(v) followed by add(v) leaves the same in-order traversal, node
\* count and shape as the first add(v) alone: the second add changes
\* nothing and reports nothing but its descent.
C7_AddIdempotent ==
    (op = "add" /\ op2 = "add" /\ arg2 = arg) =>
        /\ Inorder(heap, root) = Inorder(prev.heap, prev.root)
        /\ Cardinality(Tree) = Cardinality(OldTree)
        /\ Len(heap) = Len(prev.heap)
        /\ root = prev.root
        /\ \A a \in Tree : heap[a] = prev.heap[a]
        /\ \A i \in 1 .. Len(out) : out[i].text \in {"Go left from", "Go right from"}

C7_Witness ==
    /\ op = "add"
    /\ op2 = "add"
    /\ arg2 = arg
    /\ Len(Inorder(heap, root)) >= 2
    /\ heap[root].data # arg

\* C8: after every completed add or remove call the nodes created and not
\* yet destroyed are exactly the nodes reachable from the root.
C8_NoLeak ==
    pc = "menu" => (1 .. Len(heap)) \ freed = Tree

\* C9: the destructor releases every node reachable from the root exactly
\* once, each node after all nodes of its two subtrees, and touches no
\* node after releasing it.
C9_Teardown ==
    pc = "done" =>
        LET deletes(a) == {i \in 1 .. Len(log) : log[i] = Event("delete", a)}
        IN /\ \A a \in Tree : Cardinality(deletes(a)) = 1
           /\ freed = Tree
           /\ \A a \in Tree : \A d \in Children(heap, a) :
                 \A i \in deletes(a), j \in deletes(d) : j < i
           /\ \A i, j \in 1 .. Len(log) :
                 (i < j /\ log[i].kind = "delete") => log[j].addr # log[i].addr

C9_Witness ==
    /\ pc = "done"
    /\ Cardinality(Tree) >= 3
    /\ \E n \in Tree : HasTwoChildren(heap, n)
    /\ Cardinality(freed) >= 3

\* C10: the nodes reachable from the root form a proper tree: the root
\* node is held by the root reference only, every other reachable node by
\* exactly one left or right field of one reachable node, no node is its
\* own descendant, and a tree holding no value has an absent root.
C10_ProperTree ==
    LET holders(a) == {hf \in Tree \X {"left", "right"} : heap[hf[1]][hf[2]] = a}
    IN /\ \A a \in Tree :
             IF a = root THEN holders(a) = {} ELSE Cardinality(holders(a)) = 1
       /\ \A a \in Tree : a \notin Children(heap, a)
       /\ present = {} => root = NULL

C10_Witness ==
    /\ op = "remove"
    /\ prev.root # NULL
    /\ prev.heap[prev.root].data = arg
    /\ HasTwoChildren(prev.heap, prev.root)
    /\ Cardinality(Tree) >= 3

\* C11: a second tree given the same add, remove, findMaximum and
\* testPerformance calls under the other value of verbose has the same
\* nodes, links and values after every call and returns the same
\* findMaximum results.
C11_VerboseIrrelevant ==
    /\ twin.heap = heap
    /\ twin.root = root
    /\ twin.ret = ret

C11_Witness ==
    /\ op = "add"
    /\ op2 = "remove"
    /\ arg \notin OldValues
    /\ Cardinality(OldTree) >= 2
    /\ verbose
    /\ ~twin.verbose
    /\ Len(out) >= 2

\* C12: verbose is false during every insertion testPerformance makes, and
\* when testPerformance returns verbose has the value it had just before
\* the call.
C12_VerboseRestored ==
    /\ \A i \in 1 .. Len(perf) : ~perf[i].verbose
    /\ (op = "testPerformance" /\ pc = "menu") => verbose = prev.verbose

\* C13: testPerformance runs the stages 100, 1000, 10000, 100000 in that
\* order; the stage with count n makes exactly n add calls, each with a
\* value in [0, 10n); no value or node present before the call or added
\* by an earlier stage leaves the tree, and the tree is ordered afterwards.
C13_TestPerformance ==
    /\ Len(perf) <= 4
    /\ \A i \in 1 .. Len(perf) :
          /\ perf[i].count = <<100, 1000, 10000, 100000>>[i]
          /\ perf[i].calls = perf[i].count
          /\ \A v \in perf[i].draws : 0 <= v /\ v < 10 * perf[i].count
    /\ op = "testPerformance" =>
          /\ Len(perf) = stage
          /\ pc = "menu" => stage = 4
          /\ out = [i \in 1 .. Len(perf) |->
                       Line("Added elements in ms", perf[i].count)]
          /\ OldTree \subseteq Tree
          /\ \A a \in OldTree : heap[a].data = prev.heap[a].data
          /\ OldValues \subseteq TreeValues
          /\ TreeValues = present
          /\ StrictlyIncreasing(Inorder(heap, root))

C13_Witness ==
    /\ pc = "menu"
    /\ op = "testPerformance"
    /\ OldValues # {}
    /\ Cardinality(Tree) >= Cardinality(OldTree) + 2

\* Depth of a reachable node, the root counting as 1.
DepthOf(h, rt, a) == 1 + Cardinality({b \in Reach(h, rt) : a \in Children(h, b)})

\* C14: display writes every value of the tree exactly once, in strictly
\* decreasing order, each under a field width of 5 times the depth of its
\* node, and leaves the tree's shape and values as they were.
C14_Display ==
    op = "display" =>
        LET lines == Tail(out)
        IN /\ out[1].text = "BST Structure:"
           /\ Len(lines) = Cardinality(Tree)
           /\ \A i \in 1 .. Len(lines) : lines[i].text = "setw"
           /\ {lines[i].n : i \in 1 .. Len(lines)} = TreeValues
           /\ \A i \in 1 .. Len(lines) - 1 : lines[i].n > lines[i + 1].n
           /\ \A i \in 1 .. Len(lines) :
                 lines[i].w = 5 * DepthOf(heap, root, NodeOf(heap, root, lines[i].n))
           /\ heap = prev.heap
           /\ root = prev.root

C14_Witness ==
    /\ op = "display"
    /\ Cardinality(Tree) = 3
    /\ \E i \in 2 .. Len(out) : out[i].w = 15
    /\ \E i \in 2 .. Len(out) : out[i].w = 10

\* C15: every add, remove, findMaximum and display call returns after a
\* number of steps bounded by the size of the tree, and every node whose
\* fields it reads is a live node of the tree: it follows no null root or
\* child reference.
C15_Totality ==
    op \in {"add", "remove", "findMaximum", "display"} =>
        /\ Len(CallTrace) <= 3 * Cardinality(OldTree) + 1
        /\ \A i \in 1 .. Len(CallTrace) :
              IF CallTrace[i].kind \in {"new", "absent", "empty"}
              THEN CallTrace[i].at = NULL
              ELSE /\ CallTrace[i].at # NULL
                   /\ CallTrace[i].at \in OldTree
                   /\ CallTrace[i].at \notin freed
        /\ pc = "menu"
        /\ op = "findMaximum" => ret = findMax(prev.heap, prev.root)

C15_Witness ==
    /\ op = "findMaximum"
    /\ op2 = "remove"
    /\ prev.root = NULL
    /\ Len(heap) >= 2
    /\ ret = -1

\* C20: in a two-child remove the nested removal of the successor's value
\* only goes left from the right child, reaches the successor's node and
\* ends there in the no-left-child splice; so one remove call has at most
\* one two-child step, changes the value of at most one node and unlinks
\* exactly one node when the value is present.
C20_NestedRemove ==
    op = "remove" =>
        LET t == removeTrace(prev.heap, prev.root, arg)
            two == {i \in 1 .. Len(t) : t[i].kind = "twoChild"}
        IN /\ Cardinality(two) <= 1
           /\ \A i \in two :
                 LET succ == findMin(prev.heap, prev.heap[t[i].at].right)
                     nested == {j \in 1 .. Len(t) : j > i /\ t[j].kind \notin
                                   {"minLeft", "min", "successor"}}
                 IN /\ t[Len(t)] = Step(succ, "noLeft")
                    /\ \A j \in nested \ {Len(t)} : t[j].kind = "left"
                    /\ \A j \in nested : t[j].at \in
                          Reach(prev.heap, prev.heap[t[i].at].right)
                    /\ heap[t[i].at].data = prev.heap[succ].data
                    /\ OldTree \ Tree = {succ}
           /\ Cardinality({a \in OldTree : heap[a].data # prev.heap[a].data}) <= 1
           /\ Tree \subseteq OldTree
           /\ arg \in OldValues => Cardinality(OldTree \ Tree) = 1

C20_Witness ==
    LET p == NodeOf(prev.heap, prev.root, arg)
    IN /\ op = "remove"
       /\ p # NULL
       /\ HasTwoChildren(prev.heap, p)
       /\ prev.heap[findMin(prev.heap, prev.heap[p].right)].right # NULL

\* C16: choices 1 to 5 call add, remove, display, findMaximum and
\* testPerformance and leave the program in its loop; choice 6 is the only
\* way the process ends, and it ends with status 0; any other number
\* prints the invalid-choice message, leaves the tree as it was and leaves
\* the program in its loop.
C16_CommandLoop ==
    /\ choice = 1 => (op = "add" /\ pc = "menu")
    /\ choice = 2 => (op = "remove" /\ pc = "menu")
    /\ choice = 3 => (op = "display" /\ pc = "menu")
    /\ choice = 4 => (op = "findMaximum" /\ pc = "menu")
    /\ choice = 5 => (op = "testPerformance" /\ pc \in {"perf", "menu"})
    /\ choice = 6 <=> pc = "done"
    /\ pc = "done" => (op = "exit" /\ ret = 0)
    /\ choice \notin 1 .. 6 => (op \in {"none", "invalid"} /\ pc = "menu")
    /\ op = "invalid" =>
          /\ choice \notin 1 .. 6
          /\ out = <<Line("Invalid choice. Please try again.", 0)>>
          /\ heap = prev.heap
          /\ root = prev.root
    /\ op = "add" =>
          LET r == insert(prev.heap, prev.verbose, prev.root, arg)
          IN heap = r.h /\ root = r.node /\ out = r.out
    /\ op = "remove" =>
          LET r == remove(prev.heap, prev.root, arg)
          IN heap = r.h /\ root = r.node
    /\ op = "display" =>
          /\ out = <<Line("BST Structure:", 0)>> \o printTree(prev.heap, prev.root, 0)
          /\ heap = prev.heap /\ root = prev.root
    /\ op = "findMaximum" =>
          /\ ret = findMax(prev.heap, prev.root)
          /\ heap = prev.heap /\ root = prev.root

C16_Witness ==
    /\ op = "invalid"
    /\ choice = 7
    /\ op2 = "testPerformance"
    /\ Cardinality(Tree) >= 2

\* C17: a removed node without a left child is replaced, in its parent or
\* in the root reference, by its right child (absent or not); otherwise a
\* removed node without a right child is replaced by its left child.  The
\* promoted subtree keeps its shape and every other node keeps its value
\* and its other links.
C17_Splice ==
    LET p == NodeOf(prev.heap, prev.root, arg)
    IN (op = "remove" /\ p # NULL /\ ~HasTwoChildren(prev.heap, p)) =>
          LET promoted == IF prev.heap[p].left = NULL
                          THEN prev.heap[p].right ELSE prev.heap[p].left
              holders == {hf \in OldTree \X {"left", "right"} :
                             prev.heap[hf[1]][hf[2]] = p}
          IN /\ IF p = prev.root
                THEN root = promoted /\ holders = {}
                ELSE /\ root = prev.root
                     /\ Cardinality(holders) = 1
                     /\ \A hf \in holders : heap[hf[1]][hf[2]] = promoted
             /\ \A a \in Reach(prev.heap, promoted) : heap[a] = prev.heap[a]
             /\ Reach(heap, promoted) = Reach(prev.heap, promoted)
             /\ \A a \in OldTree \ {p} :
                   /\ heap[a].data = prev.heap[a].data
                   /\ \A f \in {"left", "right"} :
                         <<a, f>> \notin holders => heap[a][f] = prev.heap[a][f]
             /\ Tree = OldTree \ {p}

C17_Witness ==
    LET p == NodeOf(prev.heap, prev.root, arg)
    IN /\ op = "remove"
       /\ p # NULL
       /\ p # prev.root
       /\ prev.heap[p].left = NULL
       /\ prev.heap[p].right # NULL

\* The node under which an absent value v belongs: the last node met when
\* going left for a smaller and right for a greater value from node down.
RECURSIVE AttachPoint(_, _, _)
AttachPoint(h, node, v) ==
    LET next == IF v < h[node].data THEN h[node].left ELSE h[node].right
    IN IF next = NULL THEN node ELSE AttachPoint(h, next, v)

\* C18: add(v) of an absent value hangs the new node as a leaf in the
\* empty place the comparisons from the root lead to; every node that
\* existed keeps its value, its links and its depth.
C18_AddFrame ==
    (op = "add" /\ arg \notin OldValues) =>
        LET n == Len(heap)
        IN /\ n = Len(prev.heap) + 1
           /\ heap[n] = Node(arg)
           /\ IF prev.root = NULL
              THEN root = n /\ \A a \in 1 .. Len(prev.heap) : heap[a] = prev.heap[a]
              ELSE LET q == AttachPoint(prev.heap, prev.root, arg)
                       f == IF arg < prev.heap[q].data THEN "left" ELSE "right"
                   IN /\ root = prev.root
                      /\ prev.heap[q][f] = NULL
                      /\ heap[q][f] = n
                      /\ \A a \in 1 .. Len(prev.heap) :
                            /\ heap[a].data = prev.heap[a].data
                            /\ \A g \in {"left", "right"} :
                                  (a # q \/ g # f) => heap[a][g] = prev.heap[a][g]
           /\ \A a \in OldTree :
                 DepthOf(heap, root, a) = DepthOf(prev.heap, prev.root, a)
           /\ StrictlyIncreasing(Inorder(heap, root))

C18_Witness ==
    /\ op = "add"
    /\ arg \notin OldValues
    /\ Cardinality(OldTree) >= 3
    /\ DepthOf(heap, root, Len(heap)) >= 3
    /\ \E a \in OldTree : HasTwoChildren(prev.heap, a)

\* Number of nodes on the longest path from node down.
RECURSIVE Height(_, _)
Height(h, node) ==
    IF node = NULL THEN 0
    ELSE LET l == Height(h, h[node].left)
             r == Height(h, h[node].right)
         IN 1 + (IF l > r THEN l ELSE r)

\* C19: when the n nodes of the tree are all the nodes ever created, i.e.
\* n distinct values were added to the empty tree and none removed, and
\* they were added in increasing order, the tree is a chain of right
\* children of height n; in decreasing order, a chain of left children.
C19_SortedChain ==
    LET n == Len(heap)
    IN (n >= 1 /\ Tree = 1 .. n) =>
          /\ (\A a \in 1 .. n - 1 : heap[a].data < heap[a + 1].data) =>
                /\ root = 1
                /\ \A a \in 1 .. n : heap[a].left = NULL
                /\ \A a \in 1 .. n - 1 : heap[a].right = a + 1
                /\ Height(heap, root) = n
          /\ (\A a \in 1 .. n - 1 : heap[a].data > heap[a + 1].data) =>
                /\ root = 1
                /\ \A a \in 1 .. n : heap[a].right = NULL
                /\ \A a \in 1 .. n - 1 : heap[a].left = a + 1
                /\ Height(heap, root) = n

C19_Witness ==
    /\ op = "add"
    /\ Len(heap) = 4
    /\ Tree = 1 .. 4
    /\ \A a \in 1 .. 3 : heap[a].data < heap[a + 1].data
    /\ Height(heap, root) = 4

====
